---- MODULE Spec2Model ----
(***************************************************************************)
(* Model of the function-sampling and Riemann-sum engine of integral_site: *)
(*   - Function      (src/src/function.rs): the native sampler/integrator  *)
(*                   with its back_cache / front_cache,                    *)
(*   - ChartManager  (src/src/lib.rs): the web/canvas variant,             *)
(*   - MathApp::side_panel (src/src/math_app.rs): the integral settings    *)
(*                   of the side panel,                                    *)
(*   - generate_hint (src/src/suggestions.rs): the completion hints.       *)
(*                                                                         *)
(* Floating-point numbers are modelled as exact rationals <<n, d>> in      *)
(* lowest terms with d > 0, extended with the IEEE special values          *)
(* +Inf = <<1,0>>, -Inf = <<-1,0>> and NaN = <<0,0>>.  Rounding is not     *)
(* modelled, and zero is always +0.0.                                      *)
(* Option<T> is a sequence: None = <<>> and Some(v) = <<v>>.               *)
(***************************************************************************)
EXTENDS Integers, Sequences, FiniteSets, TLC

(***************************************************************************)
(* Bounds of the model                                                     *)
(***************************************************************************)
MaxX == 2
MaxPixelWidth == 2
MaxIntegralX == 1
MaxIntegralNum == 2
MaxQuadX == 5
MaxQuadNum == 3
MaxSliderX == 1
MaxSliderNum == 2
MaxLead == 1
MaxFunctions == 2

(***************************************************************************)
(* f64 / f32 arithmetic                                                    *)
(***************************************************************************)
AbsInt(n) == IF n < 0 THEN -n ELSE n

SgnInt(n) == IF n < 0 THEN -1 ELSE IF n > 0 THEN 1 ELSE 0

RECURSIVE Gcd(_, _)
Gcd(a, b) == IF b = 0 THEN a ELSE Gcd(b, a % b)

\* the value n/d in canonical form
Norm(n, d) ==
    IF d = 0 THEN <<SgnInt(n), 0>>
    ELSE LET g == Gcd(AbsInt(n), AbsInt(d))
             s == IF d < 0 THEN -1 ELSE 1
         IN  <<(s * n) \div g, (s * d) \div g>>

NaN == <<0, 0>>
PosInf == <<1, 0>>
NegInf == <<-1, 0>>
Int2F(i) == <<i, 1>>
Zero == Int2F(0)
One == Int2F(1)
Two == Int2F(2)

IsNaN(a) == a = NaN
IsFinite(a) == a[2] # 0

FAdd(a, b) ==
    IF a[2] = 0 /\ b[2] = 0
    THEN (IF a = b THEN a ELSE NaN)
    ELSE Norm(a[1] * b[2] + b[1] * a[2], a[2] * b[2])

FNeg(a) == <<-a[1], a[2]>>

FSub(a, b) == FAdd(a, FNeg(b))

FMul(a, b) == Norm(a[1] * b[1], a[2] * b[2])

FDiv(a, b) ==
    LET sb == IF b[1] < 0 THEN -1 ELSE 1
    IN  Norm(a[1] * b[2] * sb, a[2] * AbsInt(b[1]))

FAbs(a) == <<AbsInt(a[1]), a[2]>>

\* a == b on floats: NaN equals nothing, itself included
FEq(a, b) == ~IsNaN(a) /\ ~IsNaN(b) /\ a = b

FLt(a, b) ==
    /\ ~IsNaN(a)
    /\ ~IsNaN(b)
    /\ IF a[2] = 0 /\ b[2] = 0 THEN a[1] < b[1] ELSE a[1] * b[2] < b[1] * a[2]

FLe(a, b) == FLt(a, b) \/ FEq(a, b)

FGe(a, b) == FLe(b, a)

IsSignPositive(a) == a[1] >= 0

\* sum of a sequence of floats, left to right, starting from 0.0
RECURSIVE FSum(_)
FSum(s) == IF s = <<>> THEN Zero ELSE FAdd(FSum(SubSeq(s, 1, Len(s) - 1)), s[Len(s)])

(***************************************************************************)
(* Option<T>                                                               *)
(***************************************************************************)
None == <<>>
Some(v) == <<v>>
IsSome(o) == o # None
IsNone(o) == o = None
Unwrap(o) == o[1]
UnwrapOr(o, dflt) == IF o = None THEN dflt ELSE o[1]

\* a != Some(b) for Option<f64> (PartialEq of f64: NaN differs from itself)
OptFNe(o, b) == IF o = None THEN TRUE ELSE ~FEq(o[1], b)

\* a != Some(b) for Option<usize> and Option<RiemannSum>
OptNe(o, b) == o # Some(b)

\* let x = v in Body(x), with v evaluated once
Let(v, Body(_)) == CHOOSE r \in {Body(x) : x \in {v}} : TRUE

(***************************************************************************)
(* meval: parsing and evaluation of the expression strings                 *)
(***************************************************************************)
RiemannSum == {"Left", "Middle", "Right"}

\* the expression strings that parse
ValidExprs == {"x", "1/x", "1", "x^2", "0/x"}

ParseOk(s) == s \in ValidExprs

\* the compiled function of expression e applied to v
Eval(e, v) ==
    CASE e = "x" -> v
      [] e = "1/x" -> FDiv(One, v)
      [] e = "1" -> One
      [] e = "x^2" -> FMul(v, v)
      [] e = "0/x" -> FDiv(Zero, v)

(***************************************************************************)
(* State                                                                   *)
(***************************************************************************)
VARIABLES
    surface,  \* which front end this run follows: "native" drives a Function
              \* (function.rs), "web" drives a ChartManager (lib.rs)
    fun,      \* the Function struct
    cm,       \* the ChartManager struct
    panic,    \* message of the panic that aborted the program, "" if none
    last,     \* the call that produced this state and what it did
    ret,      \* the value returned by the last Function::run, or what the
              \* last ChartManager::update drew and returned
    settings, \* the AppSettings of the MathApp ("app")
    pass,     \* what the user did in the last side_panel pass
    input,    \* the text handed to generate_hint ("hint")
    hint,     \* the HintEnum generate_hint returned
    app       \* the MathApp ("app"): the fields its function list lives in

vars == <<surface, fun, cm, panic, last, ret, settings, pass, input, hint, app>>

\* the state of the user interface, untouched by Function and ChartManager
appVars == <<settings, pass, input, hint, app>>

\* the state of the engine, untouched by the user interface
engineVars == <<fun, cm, panic, last, ret>>

(***************************************************************************)
(* Inputs                                                                  *)
(***************************************************************************)
\* viewport bounds handed to update_bounds / new
Xs == {Int2F(i) : i \in -1..MaxX}

PixelWidths == 1..MaxPixelWidth

\* (min_x, max_x, pixel_width) with min_x < max_x
Views == {v \in Xs \X Xs \X PixelWidths : FLt(v[1], v[2])}

\* (min_x, max_x, pixel_width) as a caller may hand them over, min_x >= max_x
\* included
AnyViews == Xs \X Xs \X PixelWidths

\* the few viewports used where the sampler is not the subject
FewViews == {<<Int2F(-1), One, 2>>, <<Zero, One, 2>>}

\* the viewport used where the integrator is the subject
OneView == {<<Int2F(-1), One, 2>>}

\* expression strings handed to new / update; "(" does not parse
FuncStrs == {"x", "1/x"}

BadFuncStr == "("

\* the ends of the integration range: the origin and the farthest point
IntegralMins == {Int2F(-MaxIntegralX), Zero}

IntegralMaxs == {Zero, Int2F(MaxIntegralX)}

IntegralNums == 0..MaxIntegralNum

\* (integral_min_x, integral_max_x, integral_num, sum) as the caller hands
\* them over: all present, all absent, or exactly one of them absent
AllSomeArgs ==
    {<<Some(a), Some(b), Some(n), Some(s)>> :
        a \in IntegralMins, b \in IntegralMaxs, n \in IntegralNums, s \in RiemannSum}

OneNoneArgs ==
    {[<<Some(Int2F(-1)), Some(One), Some(1), Some("Left")>>
        EXCEPT ![k] = None] : k \in 1..4}

AllNoneArgs == <<None, None, None, None>>

IntegralArgs == AllSomeArgs \cup OneNoneArgs \cup {AllNoneArgs}

\* the few integration arguments used where the sampler is the subject
FewIntegralArgs ==
    {<<Some(Int2F(-1)), Some(One), Some(2), Some("Left")>>,
     <<Some(Zero), Some(One), Some(1), Some("Middle")>>,
     AllNoneArgs}

\* expression strings used where the bounds are the subject; 0/x is NaN at 0
BoundsFuncStrs == {"x", "1/x", "0/x"}

\* the integration settings used where the quadrature itself is the subject:
\* ranges from -1 or 0 up to a whole number, every count, every rule
QuadFuncStrs == {"x", "1", "1/x", "0/x"}

QuadArgs ==
    {<<Some(a), Some(Int2F(b)), Some(n), Some(s)>> :
        a \in {Int2F(-1), Zero}, b \in 0..MaxQuadX, n \in 0..MaxQuadNum, s \in RiemannSum}

(***************************************************************************)
(* Function::new                                                           *)
(***************************************************************************)
\* the panic Function::new ends in, "" when it returns
NewPanic(func_str, integral, integral_min_x, integral_max_x, integral_num, sum) ==
    IF integral /\ IsNone(integral_min_x)
        THEN "Invalid arguments: integral_min_x is None, but integral is enabled."
    ELSE IF integral /\ IsNone(integral_max_x)
        THEN "Invalid arguments: integral_max_x is None, but integral is enabled."
    ELSE IF integral /\ IsNone(integral_num)
        THEN "Invalid arguments: integral_num is None, but integral is enabled."
    ELSE IF integral /\ IsNone(sum)
        THEN "Invalid arguments: sum is None, but integral is enabled"
    ELSE IF ~ParseOk(func_str)
        THEN "called Result::unwrap() on an Err value"
    ELSE ""

New(func_str, min_x, max_x, pixel_width, integral, integral_min_x, integral_max_x, integral_num, sum) ==
    [function |-> func_str,
     func_str |-> func_str,
     min_x |-> min_x,
     max_x |-> max_x,
     pixel_width |-> pixel_width,
     back_cache |-> None,
     front_cache |-> None,
     integral |-> integral,
     integral_min_x |-> UnwrapOr(integral_min_x, NaN),
     integral_max_x |-> UnwrapOr(integral_max_x, NaN),
     integral_num |-> UnwrapOr(integral_num, 0),
     sum |-> UnwrapOr(sum, "Left")]

\* Runs the internal function to get values
run_func(self, x) == Eval(self.function, x)

(***************************************************************************)
(* Sampling                                                                *)
(***************************************************************************)
\* Value::new(x, y)
Value(x, y) == <<x, y>>

\* the series without the points whose y is NaN
RunSamples_DropsNaN(self) ==
    LET resolution == FDiv(Int2F(self.pixel_width), FAbs(FSub(self.max_x, self.min_x)))
    IN  SelectSeq([k \in 1..(self.pixel_width + 1) |->
                      LET x == FAdd(FDiv(Int2F(k - 1), resolution), self.min_x)
                      IN  Value(x, run_func(self, x))],
                  LAMBDA p : ~IsNaN(p[2]))

\* the series Function::run computes when back_cache is None
RunSamples(self) ==
    LET resolution == FDiv(Int2F(self.pixel_width), FAbs(FSub(self.max_x, self.min_x)))
    IN  [k \in 1..(self.pixel_width + 1) |->
            LET x == FAdd(FDiv(Int2F(k - 1), resolution), self.min_x)
            IN  Value(x, run_func(self, x))]

\* the x positions of the pan/zoom branch of update_bounds
PanXs(self, min_x, max_x) ==
    LET resolution == FDiv(Int2F(self.pixel_width), FAdd(FAbs(max_x), FAbs(min_x)))
    IN  [k \in 1..(self.pixel_width + 1) |->
            FAdd(FDiv(Int2F(k - 1), resolution), min_x)]

\* x_data.iter().position(|&r| r == x): 0 stands for None
Position(x_data, x) ==
    LET hits == {i \in 1..Len(x_data) : FEq(x_data[i], x)}
    IN  IF hits = {} THEN 0 ELSE CHOOSE i \in hits : \A j \in hits : i <= j

\* TRUE when the pan/zoom branch evaluates the function at x
PanEvaluates(self, x) ==
    LET x_data == [i \in 1..Len(Unwrap(self.back_cache)) |-> Unwrap(self.back_cache)[i][1]]
    IN  \/ FLt(x, self.min_x)
        \/ FLt(self.max_x, x)
        \/ Position(x_data, x) = 0

\* the series the pan/zoom branch of update_bounds stores
PanSamples(self, min_x, max_x) ==
    LET back_cache == Unwrap(self.back_cache)
        x_data == [i \in 1..Len(back_cache) |-> back_cache[i][1]]
        xs == PanXs(self, min_x, max_x)
    IN  [k \in 1..Len(xs) |->
            IF PanEvaluates(self, xs[k])
            THEN Value(xs[k], run_func(self, xs[k]))
            ELSE back_cache[Position(x_data, xs[k])]]

PanEvalCount(self, min_x, max_x) ==
    LET xs == PanXs(self, min_x, max_x)
    IN  Cardinality({k \in 1..Len(xs) : PanEvaluates(self, xs[k])})

(***************************************************************************)
(* Function::integral_rectangles                                           *)
(***************************************************************************)
IntegralPanic(self) ==
    IF IsNaN(self.integral_min_x) THEN "integral_min_x is NaN"
    ELSE IF IsNaN(self.integral_max_x) THEN "integral_max_x is NaN"
    ELSE ""

IntegralStep(self) ==
    FDiv(FAbs(FSub(self.integral_min_x, self.integral_max_x)), Int2F(self.integral_num))

\* x of rectangle e (e counted from 0)
RectX(self, e) == FAdd(FMul(Int2F(e), IntegralStep(self)), self.integral_min_x)

RectX2(self, e) ==
    IF IsSignPositive(RectX(self, e))
    THEN FAdd(RectX(self, e), IntegralStep(self))
    ELSE FSub(RectX(self, e), IntegralStep(self))

\* the left bound taken to be x on both sides of the origin
RectLeftX_IsX(self, e) == RectX(self, e)

RectLeftX(self, e) ==
    IF IsSignPositive(RectX(self, e)) THEN RectX(self, e) ELSE RectX2(self, e)

RectRightX(self, e) ==
    IF IsSignPositive(RectX(self, e)) THEN RectX2(self, e) ELSE RectX(self, e)

\* the center taken to be x + half_step on both sides of the origin
RectCenter_AlwaysAdds(self, e) == FAdd(RectX(self, e), FDiv(IntegralStep(self), Two))

RectCenter(self, e) ==
    LET half_step == FDiv(IntegralStep(self), Two)
    IN  IF IsSignPositive(RectX(self, e))
        THEN FAdd(RectX(self, e), half_step)
        ELSE FSub(RectX(self, e), half_step)

RectHeight(self, e) ==
    CASE self.sum = "Left" -> run_func(self, RectLeftX(self, e))
      [] self.sum = "Right" -> run_func(self, RectRightX(self, e))
      [] self.sum = "Middle" ->
            FDiv(FAdd(run_func(self, RectLeftX(self, e)),
                      run_func(self, RectRightX(self, e))), Two)

\* indices (from 0) of the first n rectangles that survive the NaN filter
RECURSIVE SurvivingUpTo(_, _)
SurvivingUpTo(self, n) ==
    IF n = 0 THEN <<>>
    ELSE IF IsNaN(RectHeight(self, n - 1))
         THEN SurvivingUpTo(self, n - 1)
         ELSE Append(SurvivingUpTo(self, n - 1), n - 1)

\* no rectangle is dropped
SurvivingRects_KeepsAll(self) == [k \in 1..self.integral_num |-> k - 1]

SurvivingRects(self) == SurvivingUpTo(self, self.integral_num)

\* the area taken to be the sum of the heights
integral_rectangles_SumsHeights(self) ==
    Let([k \in 1..Len(SurvivingRects(self)) |->
            <<RectCenter(self, SurvivingRects(self)[k]),
              RectHeight(self, SurvivingRects(self)[k])>>],
        LAMBDA data2 : <<data2, FSum([k \in 1..Len(data2) |-> data2[k][2]])>>)

\* (data2, area)
integral_rectangles(self) ==
    Let([k \in 1..Len(SurvivingRects(self)) |->
            <<RectCenter(self, SurvivingRects(self)[k]),
              RectHeight(self, SurvivingRects(self)[k])>>],
        LAMBDA data2 :
            <<data2, FSum([k \in 1..Len(data2) |-> FMul(data2[k][2], IntegralStep(self))])>>)

\* number of run_func calls integral_rectangles makes
IntegralEvalCount(self) ==
    self.integral_num * (IF self.sum = "Middle" THEN 2 ELSE 1)

(***************************************************************************)
(* Function::update                                                        *)
(***************************************************************************)
\* the names of the integration arguments that are not Some(stored value)
DiffersFromStored(self, integral_min_x, integral_max_x, integral_num, sum) ==
    (IF OptFNe(integral_min_x, self.integral_min_x) THEN {"integral_min_x"} ELSE {})
        \cup (IF OptFNe(integral_max_x, self.integral_max_x) THEN {"integral_max_x"} ELSE {})
        \cup (IF OptNe(integral_num, self.integral_num) THEN {"integral_num"} ELSE {})
        \cup (IF OptNe(sum, self.sum) THEN {"sum"} ELSE {})

\* the guard without the comparison of the rule
IntegralParamsChanged_IgnoresSum(self, integral, integral_min_x, integral_max_x, integral_num, sum) ==
    integral
        /\ DiffersFromStored(self, integral_min_x, integral_max_x, integral_num, sum)
                \ {"sum"} # {}

\* the guard with the switch from off to on counted as a change
IntegralParamsChanged_OnEnable(self, integral, integral_min_x, integral_max_x, integral_num, sum) ==
    integral
        /\ (~self.integral
                \/ DiffersFromStored(self, integral_min_x, integral_max_x, integral_num, sum)
                        # {})

\* the guard without the comparisons
IntegralParamsChanged_Always(self, integral, integral_min_x, integral_max_x, integral_num, sum) ==
    integral

\* the guard of the block that stores new integration parameters
IntegralParamsChanged(self, integral, integral_min_x, integral_max_x, integral_num, sum) ==
    integral /\ DiffersFromStored(self, integral_min_x, integral_max_x, integral_num, sum) # {}

\* the block without the reset of front_cache
StoreIntegralParams_KeepsFront(self, integral_min_x, integral_max_x, integral_num, sum) ==
    LET s2 == [self EXCEPT !.integral_min_x = Unwrap(integral_min_x)]
        s3 == [s2 EXCEPT !.integral_max_x = Unwrap(integral_max_x)]
        s4 == [s3 EXCEPT !.integral_num = Unwrap(integral_num)]
        s5 == [s4 EXCEPT !.sum = Unwrap(sum)]
    IN  IF IsNone(integral_min_x) THEN [self |-> self, panic |-> "integral_min_x is None"]
        ELSE IF IsNone(integral_max_x) THEN [self |-> s2, panic |-> "integral_max_x is None"]
        ELSE IF IsNone(integral_num) THEN [self |-> s3, panic |-> "integral_num is None"]
        ELSE IF IsNone(sum) THEN [self |-> s4, panic |-> "sum is None"]
        ELSE [self |-> s5, panic |-> ""]

\* the block with the absent arguments read as "keep the stored value"
StoreIntegralParams_KeepsAbsent(self, integral_min_x, integral_max_x, integral_num, sum) ==
    [self |-> [self EXCEPT !.front_cache = None,
                           !.integral_min_x = UnwrapOr(integral_min_x, self.integral_min_x),
                           !.integral_max_x = UnwrapOr(integral_max_x, self.integral_max_x),
                           !.integral_num = UnwrapOr(integral_num, self.integral_num),
                           !.sum = UnwrapOr(sum, self.sum)],
     panic |-> ""]

\* the block that stores new integration parameters: the struct and the
\* panic it ends in ("" when it runs to its end)
StoreIntegralParams(self, integral_min_x, integral_max_x, integral_num, sum) ==
    LET s1 == [self EXCEPT !.front_cache = None]
        s2 == [s1 EXCEPT !.integral_min_x = Unwrap(integral_min_x)]
        s3 == [s2 EXCEPT !.integral_max_x = Unwrap(integral_max_x)]
        s4 == [s3 EXCEPT !.integral_num = Unwrap(integral_num)]
        s5 == [s4 EXCEPT !.sum = Unwrap(sum)]
    IN  IF IsNone(integral_min_x) THEN [self |-> s1, panic |-> "integral_min_x is None"]
        ELSE IF IsNone(integral_max_x) THEN [self |-> s2, panic |-> "integral_max_x is None"]
        ELSE IF IsNone(integral_num) THEN [self |-> s3, panic |-> "integral_num is None"]
        ELSE IF IsNone(sum) THEN [self |-> s4, panic |-> "sum is None"]
        ELSE [self |-> s5, panic |-> ""]

\* update that recompiles a changed expression and keeps the caches
update_KeepsCaches(self, func_str, integral, integral_min_x, integral_max_x, integral_num, sum) ==
    IF func_str = ""
    THEN [self |-> [self EXCEPT !.func_str = func_str], panic |-> ""]
    ELSE IF func_str # self.func_str
    THEN IF NewPanic(func_str, integral, integral_min_x, integral_max_x, integral_num, sum) # ""
         THEN [self |-> self,
               panic |-> NewPanic(func_str, integral, integral_min_x, integral_max_x,
                                  integral_num, sum)]
         ELSE [self |-> [New(func_str, self.min_x, self.max_x, self.pixel_width, integral,
                             integral_min_x, integral_max_x, integral_num, sum)
                            EXCEPT !.back_cache = self.back_cache,
                                   !.front_cache = self.front_cache],
               panic |-> ""]
    ELSE LET s1 == [self EXCEPT !.integral = integral]
         IN  IF IntegralParamsChanged(self, integral, integral_min_x, integral_max_x,
                                      integral_num, sum)
             THEN StoreIntegralParams(s1, integral_min_x, integral_max_x, integral_num, sum)
             ELSE [self |-> s1, panic |-> ""]

\* Function::update as a function of the struct and the arguments
update(self, func_str, integral, integral_min_x, integral_max_x, integral_num, sum) ==
    IF func_str = ""
    THEN [self |-> [self EXCEPT !.func_str = func_str], panic |-> ""]
    ELSE IF func_str # self.func_str
    THEN IF NewPanic(func_str, integral, integral_min_x, integral_max_x, integral_num, sum) # ""
         THEN [self |-> self,
               panic |-> NewPanic(func_str, integral, integral_min_x, integral_max_x,
                                  integral_num, sum)]
         ELSE [self |-> New(func_str, self.min_x, self.max_x, self.pixel_width, integral,
                            integral_min_x, integral_max_x, integral_num, sum),
               panic |-> ""]
    ELSE LET s1 == [self EXCEPT !.integral = integral]
         IN  IF IntegralParamsChanged(self, integral, integral_min_x, integral_max_x,
                                      integral_num, sum)
             THEN StoreIntegralParams(s1, integral_min_x, integral_max_x, integral_num, sum)
             ELSE [self |-> s1, panic |-> ""]

\* the record kept of a call: its name, the arguments the claims talk about
\* (func_str and integral of update; whether the four integration arguments
\* of update were "absent" (one of them None), the "same" as the stored
\* values or "changed"; the arguments of update_bounds; the failure point of draw), whether back_cache and
\* front_cache were populated when the call was made, and the number of calls
\* of the compiled function it made for the series and for the rectangles;
\* for a ChartManager also the stored parameters its back_cache and its
\* front_cache were computed from (<<>> while the cache was never computed)
NoCall ==
    [op |-> "new", func_str |-> "", integral |-> FALSE, args |-> "absent",
     min_x |-> NaN, max_x |-> NaN, pixel_width |-> 0,
     back_was |-> FALSE, front_was |-> FALSE, integral_was |-> FALSE,
     sample_evals |-> 0, integral_evals |-> 0, fail |-> "none",
     back_from |-> <<>>, front_from |-> <<>>]

\* the record of a call made on the Function self
Call(self, op) ==
    [NoCall EXCEPT !.op = op, !.back_was = IsSome(self.back_cache),
                   !.front_was = IsSome(self.front_cache),
                   !.integral_was = self.integral]

\* the record of a call made on the ChartManager self
ChartCall(self, fail) ==
    [NoCall EXCEPT !.op = "chart_update", !.back_was = IsSome(self.back_cache),
                   !.front_was = IsSome(self.front_cache), !.fail = fail]

ArgsKind(self, args) ==
    IF \E k \in 1..4 : IsNone(args[k]) THEN "absent"
    ELSE IF /\ args = <<Some(self.integral_min_x), Some(self.integral_max_x),
                        Some(self.integral_num), Some(self.sum)>>
            /\ ~IsNaN(self.integral_min_x)
            /\ ~IsNaN(self.integral_max_x)
         THEN "same"
    ELSE "changed"

Update(func_str, integral, args) ==
    /\ surface = "native"
    /\ panic = ""
    /\ \E r \in {update(fun, func_str, integral, args[1], args[2], args[3], args[4])} :
           /\ fun' = r.self
           /\ panic' = r.panic
    /\ last' = [Call(fun, "update") EXCEPT !.func_str = func_str, !.integral = integral,
                                           !.args = ArgsKind(fun, args)]
    /\ ret' = None
    /\ UNCHANGED <<surface, cm, appVars>>

(***************************************************************************)
(* Function::update_bounds                                                 *)
(***************************************************************************)
\* the pan/zoom branch is taken
PanBranch(self, min_x, max_x, pixel_width) ==
    /\ pixel_width = self.pixel_width
    /\ ~FEq(min_x, self.min_x) \/ ~FEq(max_x, self.max_x)
    /\ IsSome(self.back_cache)

\* update_bounds that also drops the rectangles when it drops the series
update_bounds_WipesFront(self, min_x, max_x, pixel_width) ==
    IF pixel_width # self.pixel_width
    THEN [self EXCEPT !.back_cache = None, !.front_cache = None, !.min_x = min_x,
                      !.max_x = max_x, !.pixel_width = pixel_width]
    ELSE IF PanBranch(self, min_x, max_x, pixel_width)
    THEN [self EXCEPT !.back_cache = Some(PanSamples(self, min_x, max_x))]
    ELSE [self EXCEPT !.back_cache = None, !.front_cache = None, !.min_x = min_x,
                      !.max_x = max_x, !.pixel_width = pixel_width]

update_bounds(self, min_x, max_x, pixel_width) ==
    IF pixel_width # self.pixel_width
    THEN [self EXCEPT !.back_cache = None, !.min_x = min_x, !.max_x = max_x,
                      !.pixel_width = pixel_width]
    ELSE IF PanBranch(self, min_x, max_x, pixel_width)
    THEN [self EXCEPT !.back_cache = Some(PanSamples(self, min_x, max_x))]
    ELSE [self EXCEPT !.back_cache = None, !.min_x = min_x, !.max_x = max_x,
                      !.pixel_width = pixel_width]

UpdateBounds(min_x, max_x, pixel_width) ==
    /\ surface = "native"
    /\ panic = ""
    /\ fun' = update_bounds(fun, min_x, max_x, pixel_width)
    /\ last' = [Call(fun, "update_bounds") EXCEPT
                    !.min_x = min_x, !.max_x = max_x, !.pixel_width = pixel_width,
                    !.sample_evals = IF PanBranch(fun, min_x, max_x, pixel_width)
                                     THEN PanEvalCount(fun, min_x, max_x) ELSE 0]
    /\ ret' = None
    /\ UNCHANGED <<surface, cm, panic, appVars>>

(***************************************************************************)
(* Function::run                                                           *)
(***************************************************************************)
\* the struct after the sampling half of run
RunBack(self) ==
    IF IsNone(self.back_cache)
    THEN Let(RunSamples(self), LAMBDA series : [self EXCEPT !.back_cache = Some(series)])
    ELSE self

\* the panic the integration half of run ends in, "" when it returns
RunPanic(self) ==
    IF self.integral /\ IsNone(self.front_cache) THEN IntegralPanic(self) ELSE ""

\* the struct after the integration half of run (no panic)
RunFront(self) ==
    IF self.integral /\ IsNone(self.front_cache)
    THEN Let(integral_rectangles(self), LAMBDA bars : [self EXCEPT !.front_cache = Some(bars)])
    ELSE self

\* run that returns the rectangles whenever some are cached
RunResult_WheneverCached(self) ==
    [line |-> Unwrap(self.back_cache),
     bars |-> IF IsSome(self.front_cache) THEN Some(Unwrap(self.front_cache)) ELSE None]

\* (Line, Option<(BarChart, f64)>)
RunResult(self) ==
    [line |-> Unwrap(self.back_cache),
     bars |-> IF self.integral THEN Some(Unwrap(self.front_cache)) ELSE None]

\* run that returns the series it computed without keeping it
run_DiscardsSeries(self) ==
    Let(RunBack(self), LAMBDA s1 :
        IF RunPanic(s1) # ""
        THEN [self |-> s1, panic |-> RunPanic(s1), ret |-> None]
        ELSE Let(RunFront(s1), LAMBDA s2 :
                [self |-> [s2 EXCEPT !.back_cache = None], panic |-> "",
                 ret |-> Some(RunResult(s2))]))

\* Function::run: the struct afterwards, the panic it ends in, and the result
run(self) ==
    Let(RunBack(self), LAMBDA s1 :
        IF RunPanic(s1) # ""
        THEN [self |-> s1, panic |-> RunPanic(s1), ret |-> None]
        ELSE Let(RunFront(s1), LAMBDA s2 :
                [self |-> s2, panic |-> "", ret |-> Some(RunResult(s2))]))

Run ==
    /\ surface = "native"
    /\ panic = ""
    /\ \E r \in {run(fun)} :
           /\ fun' = r.self
           /\ panic' = r.panic
           /\ ret' = r.ret
    /\ last' = [Call(fun, "run") EXCEPT
                    !.sample_evals = IF IsNone(fun.back_cache) THEN fun.pixel_width + 1 ELSE 0,
                    !.integral_evals =
                        IF fun.integral /\ IsNone(fun.front_cache) /\ RunPanic(fun) = ""
                        THEN IntegralEvalCount(fun) ELSE 0]
    /\ UNCHANGED <<surface, cm, appVars>>

(***************************************************************************)
(* Function::empty_func_str                                                *)
(***************************************************************************)
empty_func_str(self) == [self EXCEPT !.func_str = ""]

EmptyFuncStr ==
    /\ surface = "native"
    /\ panic = ""
    /\ fun' = empty_func_str(fun)
    /\ last' = Call(fun, "empty_func_str")
    /\ ret' = None
    /\ UNCHANGED <<surface, cm, panic, appVars>>

(***************************************************************************)
(* ChartManager (lib.rs)                                                   *)
(***************************************************************************)
\* (func_str, min_x, max_x, min_y, max_y, num_interval, resolution) handed to
\* ChartManager::new / ChartManager::update where the Function is the subject
FewChartArgs ==
    {<<f, mn, One, Int2F(-1), One, n, r>> :
        f \in FuncStrs, mn \in {Int2F(-1), Zero}, n \in 1..2, r \in 1..2}

\* (func_str, min_x, max_x, min_y, max_y, num_interval, resolution) as a caller
\* may hand them over: min_x >= max_x, min_y >= max_y, no interval and a
\* negative resolution included
AnyChartArgs ==
    {<<f, mn, One, my, One, n, r>> :
        f \in FuncStrs, mn \in {Int2F(-1), One}, my \in {Int2F(-1), One},
        n \in {0, 2}, r \in {-1, 1, 2}}

\* chart arguments with an expression string that does not parse
BadChartArgs == <<BadFuncStr, Int2F(-1), One, Int2F(-1), One, 1, 1>>

\* where draw returns an error: nowhere, before the sample series is built
\* (fill, build_cartesian_2d, mesh), between the series and the rectangles
\* (draw_series of the line), or after both (rectangles, present)
DrawFailures == {"none", "early", "mid", "late"}

ChartNew(func_str, min_x, max_x, min_y, max_y, num_interval, resolution) ==
    [func_str |-> func_str,
     min_x |-> min_x,
     max_x |-> max_x,
     min_y |-> min_y,
     max_y |-> max_y,
     num_interval |-> num_interval,
     resolution |-> resolution,
     back_cache |-> None,
     front_cache |-> None,
     use_back_cache |-> FALSE,
     use_front_cache |-> FALSE]

\* sample k (from 1) of the series draw computes
ChartSample(self, k) ==
    LET absrange == FAbs(FSub(self.max_x, self.min_x))
    IN  Let(FAdd(FMul(FDiv(Int2F(k), Int2F(self.resolution)), absrange), self.min_x),
            LAMBDA x : <<x, Eval(self.func_str, x)>>)

\* .filter(|(_, y)| &self.min_y <= y && y <= &self.max_y)
ChartSampleKept(self, p) == FLe(self.min_y, p[2]) /\ FLe(p[2], self.max_y)

RECURSIVE ChartSamplesUpTo(_, _)
ChartSamplesUpTo(self, n) ==
    IF n <= 0 THEN <<>>
    ELSE Let(ChartSample(self, n),
             LAMBDA p : IF ChartSampleKept(self, p)
                        THEN Append(ChartSamplesUpTo(self, n - 1), p)
                        ELSE ChartSamplesUpTo(self, n - 1))

\* the series draw computes when use_back_cache is false
ChartSamples(self) == ChartSamplesUpTo(self, self.resolution)

\* rectangle e (from 0) of ChartManager::integral_rectangles before the filter
ChartRect(self, step, e) ==
    LET x == FAdd(FMul(Int2F(e), step), self.min_x)
        x2 == IF FLt(Zero, x) THEN FAdd(x, step) ELSE FSub(x, step)
        tmp1 == Eval(self.func_str, x)
        tmp2 == Eval(self.func_str, x2)
        y == IF FLt(FAbs(tmp1), FAbs(tmp2)) THEN tmp1 ELSE tmp2
    IN  IF ~IsNaN(y) THEN <<x, x2, y>> ELSE <<Zero, Zero, Zero>>

\* ele != &(0.0, 0.0, 0.0)
ChartRectKept(r) == ~FEq(r[1], Zero) \/ ~FEq(r[2], Zero) \/ ~FEq(r[3], Zero)

RECURSIVE ChartRectsUpTo(_, _, _)
ChartRectsUpTo(self, step, n) ==
    IF n = 0 THEN <<>>
    ELSE Let(ChartRect(self, step, n - 1),
             LAMBDA r : IF ChartRectKept(r)
                        THEN Append(ChartRectsUpTo(self, step, n - 1), r)
                        ELSE ChartRectsUpTo(self, step, n - 1))

\* ChartManager::integral_rectangles: (data2, area)
chart_integral_rectangles(self, step) ==
    Let(ChartRectsUpTo(self, step, self.num_interval),
        LAMBDA data2 :
            <<data2, FSum([k \in 1..Len(data2) |-> FMul(data2[k][3], step)])>>)

\* the struct after the sample-series half of draw
DrawBack(self) ==
    IF self.use_back_cache THEN self
    ELSE Let(ChartSamples(self), LAMBDA output : [self EXCEPT !.back_cache = Some(output)])

\* the struct after the rectangle half of draw
DrawFront(self) ==
    IF self.use_front_cache THEN self
    ELSE Let(FDiv(FAbs(FSub(self.max_x, self.min_x)), Int2F(self.num_interval)),
             LAMBDA step :
                Let(chart_integral_rectangles(self, step),
                    LAMBDA output : [self EXCEPT !.front_cache = Some(output)]))

\* nothing drawn, Err returned
NoDraw == [line |-> None, bars |-> None, ok |-> FALSE]

\* ChartManager::draw: the struct afterwards, the panic it ends in, and what
\* it drew (line, rectangles) and returned (ok)
draw(self, fail) ==
    IF ~ParseOk(self.func_str)
    THEN [self |-> self, panic |-> "called Result::unwrap() on an Err value", ret |-> None]
    ELSE IF fail = "early"
    THEN [self |-> self, panic |-> "", ret |-> Some(NoDraw)]
    ELSE IF self.use_back_cache /\ IsNone(self.back_cache)
    THEN [self |-> self, panic |-> "use_back_cache is true, but back_cache is None!",
          ret |-> None]
    ELSE Let(DrawBack(self), LAMBDA s1 :
        IF fail = "mid"
        THEN [self |-> s1, panic |-> "", ret |-> Some(NoDraw)]
        ELSE IF s1.use_front_cache /\ IsNone(s1.front_cache)
        THEN [self |-> s1, panic |-> "use_front_cache is true, but front_cache is None!",
              ret |-> None]
        ELSE Let(DrawFront(s1), LAMBDA s2 :
            [self |-> s2, panic |-> "",
             ret |-> Some([line |-> s2.back_cache, bars |-> s2.front_cache,
                           ok |-> fail = "none"])]))

\* underlying_update of ChartManager::update
underlying_update(self, func_str, min_x, max_x, min_y, max_y) ==
    \/ func_str # self.func_str
    \/ ~FEq(min_x, self.min_x)
    \/ ~FEq(max_x, self.max_x)
    \/ ~FEq(min_y, self.min_y)
    \/ ~FEq(max_y, self.max_y)

\* the panic ChartManager::update ends in before it writes anything, or ""
ChartUpdatePanic(self, func_str, min_x, max_x, min_y, max_y, resolution) ==
    IF underlying_update(self, func_str, min_x, max_x, min_y, max_y) /\ FGe(min_x, max_x)
        THEN "min_x is greater than (or equal to) than max_x!"
    ELSE IF underlying_update(self, func_str, min_x, max_x, min_y, max_y) /\ FGe(min_y, max_y)
        THEN "min_y is greater than (or equal to) than max_y!"
    ELSE IF 0 > resolution
        THEN "resolution cannot be less than 0"
    ELSE ""

\* the flags set without a look at the caches
ChartStore_IgnoresEmptyCache(self, func_str, min_x, max_x, min_y, max_y, num_interval, resolution) ==
    [self EXCEPT
        !.use_back_cache =
            /\ ~underlying_update(self, func_str, min_x, max_x, min_y, max_y)
            /\ self.resolution = resolution,
        !.use_front_cache =
            /\ ~underlying_update(self, func_str, min_x, max_x, min_y, max_y)
            /\ num_interval = self.num_interval,
        !.func_str = func_str,
        !.min_x = min_x,
        !.max_x = max_x,
        !.min_y = min_y,
        !.max_y = max_y,
        !.num_interval = num_interval,
        !.resolution = resolution]

\* the struct ChartManager::update hands to draw
ChartStore(self, func_str, min_x, max_x, min_y, max_y, num_interval, resolution) ==
    [self EXCEPT
        !.use_back_cache =
            /\ ~underlying_update(self, func_str, min_x, max_x, min_y, max_y)
            /\ self.resolution = resolution
            /\ IsSome(self.back_cache),
        !.use_front_cache =
            /\ ~underlying_update(self, func_str, min_x, max_x, min_y, max_y)
            /\ num_interval = self.num_interval
            /\ IsSome(self.front_cache),
        !.func_str = func_str,
        !.min_x = min_x,
        !.max_x = max_x,
        !.min_y = min_y,
        !.max_y = max_y,
        !.num_interval = num_interval,
        !.resolution = resolution]

\* update that writes the fields before it checks the arguments
chart_update_StoresFirst(self, func_str, min_x, max_x, min_y, max_y, num_interval, resolution, fail) ==
    Let(ChartStore(self, func_str, min_x, max_x, min_y, max_y, num_interval, resolution),
        LAMBDA stored :
            IF ChartUpdatePanic(self, func_str, min_x, max_x, min_y, max_y, resolution) # ""
            THEN [self |-> stored,
                  panic |-> ChartUpdatePanic(self, func_str, min_x, max_x, min_y, max_y,
                                             resolution),
                  ret |-> None]
            ELSE draw(stored, fail))

chart_update(self, func_str, min_x, max_x, min_y, max_y, num_interval, resolution, fail) ==
    IF ChartUpdatePanic(self, func_str, min_x, max_x, min_y, max_y, resolution) # ""
    THEN [self |-> self,
          panic |-> ChartUpdatePanic(self, func_str, min_x, max_x, min_y, max_y, resolution),
          ret |-> None]
    ELSE Let(ChartStore(self, func_str, min_x, max_x, min_y, max_y, num_interval, resolution),
             LAMBDA stored : draw(stored, fail))

\* the parameters the sample series of draw is computed from
BackFrom(self) ==
    <<self.func_str, self.min_x, self.max_x, self.min_y, self.max_y, self.resolution>>

\* the parameters the rectangles of draw are computed from
FrontFrom(self) == <<self.func_str, self.min_x, self.max_x, self.num_interval>>

\* draw, called by update with the failure point fail and ending in panic,
\* computed the sample series of self
DrewBack(self, fail, p) == p = "" /\ fail # "early" /\ ~self.use_back_cache

\* draw computed the rectangles of self
DrewFront(self, fail, p) == p = "" /\ fail \notin {"early", "mid"} /\ ~self.use_front_cache

ChartUpdate(a, fail) ==
    /\ surface = "web"
    /\ panic = ""
    /\ \E r \in {chart_update(cm, a[1], a[2], a[3], a[4], a[5], a[6], a[7], fail)} :
           /\ cm' = r.self
           /\ panic' = r.panic
           /\ ret' = r.ret
           /\ last' = [ChartCall(cm, fail) EXCEPT
                           !.func_str = a[1], !.min_x = a[2], !.max_x = a[3],
                           !.back_from = IF DrewBack(r.self, fail, r.panic)
                                         THEN BackFrom(r.self) ELSE last.back_from,
                           !.front_from = IF DrewFront(r.self, fail, r.panic)
                                          THEN FrontFrom(r.self) ELSE last.front_from]
    /\ UNCHANGED <<surface, fun, appVars>>

(***************************************************************************)
(* MathApp::side_panel (math_app.rs): the integral settings                *)
(***************************************************************************)
\* consts.rs
DEFAULT_RIEMANN == "Left"

DEFAULT_MIN_X == Int2F(-1)

DEFAULT_MAX_X == One

DEFAULT_INTEGRAL_NUM == 1

\* the values the two bound sliders offer
INTEGRAL_X_RANGE == {Int2F(i) : i \in -MaxSliderX..MaxSliderX}

\* the values the rectangle-count slider offers
INTEGRAL_NUM_RANGE == 1..MaxSliderNum

\* impl Default for AppSettings
AppSettingsDefault ==
    [riemann_sum |-> DEFAULT_RIEMANN,
     integral_min_x |-> DEFAULT_MIN_X,
     integral_max_x |-> DEFAULT_MAX_X,
     integral_changed |-> TRUE,
     integral_num |-> DEFAULT_INTEGRAL_NUM,
     do_extrema |-> TRUE,
     do_roots |-> TRUE,
     plot_width |-> 0]

\* what the user does in one pass: the entry of the combo box clicked (None
\* when none is), the buttons clicked, and the values the three sliders are
\* left at (the stored value when a slider is not touched)
Gestures ==
    [sum : {None} \cup {Some(r) : r \in RiemannSum},
     extrema : BOOLEAN,
     roots : BOOLEAN,
     min_x : INTEGRAL_X_RANGE,
     max_x : INTEGRAL_X_RANGE,
     num : INTEGRAL_NUM_RANGE]

\* the bounds after "Checks integral bounds, and if they are invalid, fix them"
FixBounds(min_x, max_x, min_x_old, max_x_old, min_x_changed, max_x_changed) ==
    IF FGe(min_x, max_x)
    THEN IF max_x_changed THEN <<min_x, max_x_old>>
         ELSE IF min_x_changed THEN <<min_x_old, max_x>>
         ELSE <<DEFAULT_MIN_X, DEFAULT_MAX_X>>
    ELSE <<min_x, max_x>>

\* riemann_changed as side_panel computes it
RiemannChanged(prev_sum, riemann_sum) == prev_sum = riemann_sum

\* the settings after a pass of side_panel in which the user did g
side_panel(self, g) ==
    LET prev_sum == self.riemann_sum
        riemann_sum == UnwrapOr(g.sum, self.riemann_sum)
        riemann_changed == RiemannChanged(prev_sum, riemann_sum)
        min_x_old == self.integral_min_x
        min_x_changed == ~FEq(g.min_x, min_x_old)
        max_x_old == self.integral_max_x
        max_x_changed == ~FEq(g.max_x, max_x_old)
        fixed == FixBounds(g.min_x, g.max_x, min_x_old, max_x_old,
                           min_x_changed, max_x_changed)
        integral_num_changed == g.num # self.integral_num
    IN  [self EXCEPT
            !.riemann_sum = riemann_sum,
            !.do_extrema = (self.do_extrema # g.extrema),
            !.do_roots = (self.do_roots # g.roots),
            !.integral_min_x = fixed[1],
            !.integral_max_x = fixed[2],
            !.integral_num = g.num,
            !.integral_changed =
                max_x_changed \/ min_x_changed \/ integral_num_changed \/ riemann_changed]

\* what changed in a pass in which the user did g: the selected sum, the
\* value of each slider; and whether the bounds were in order before it
PassOf(self, g) ==
    [sum_changed |-> UnwrapOr(g.sum, self.riemann_sum) # self.riemann_sum,
     min_x_changed |-> ~FEq(g.min_x, self.integral_min_x),
     max_x_changed |-> ~FEq(g.max_x, self.integral_max_x),
     integral_num_changed |-> g.num # self.integral_num,
     ordered_before |-> FLt(self.integral_min_x, self.integral_max_x)]

(***************************************************************************)
(* MathApp (math_app.rs): the list of functions                            *)
(***************************************************************************)
\* function::DEFAULT_FUNCTION_ENTRY: the switches side_panel toggles
DEFAULT_FUNCTION_ENTRY == [integral |-> FALSE, derivative |-> FALSE]

\* impl Default for MathApp: functions, func_strs, func_errors, exists_error,
\* text_boxes_focused and opened["side_panel"]
MathAppDefault ==
    [functions |-> <<DEFAULT_FUNCTION_ENTRY>>,
     func_strs |-> <<"">>,
     func_errors |-> <<None>>,
     exists_error |-> FALSE,
     text_boxes_focused |-> FALSE,
     side_panel_open |-> TRUE]

\* the error FunctionEntry::auto_complete and get_test_result report for the
\* text of a text box: none for an empty text or one that parses
TextError(text) == IF text = "" \/ ParseOk(text) THEN None ELSE Some("parse error")

\* the texts typed into a text box
Texts == {"x", BadFuncStr}

\* Vec::remove(i), i counted from 1
RemoveAt(vec, i) == SubSeq(vec, 1, i - 1) \o SubSeq(vec, i + 1, Len(vec))

\* the block of side_panel that removes the function only from functions
\* and func_strs
remove_function_KeepsErrors(self, remove_i) ==
    IF IsSome(remove_i)
    THEN [self EXCEPT !.functions = RemoveAt(self.functions, Unwrap(remove_i)),
                      !.func_strs = RemoveAt(self.func_strs, Unwrap(remove_i))]
    ELSE self

\* "Remove function if the user requests it"
remove_function(self, remove_i) ==
    IF IsSome(remove_i)
    THEN [self EXCEPT !.functions = RemoveAt(self.functions, Unwrap(remove_i)),
                      !.func_strs = RemoveAt(self.func_strs, Unwrap(remove_i)),
                      !.func_errors = RemoveAt(self.func_errors, Unwrap(remove_i))]
    ELSE self

\* what the user does to the rows of the function list in one pass: the rows
\* whose X button is clicked, the switch clicked and the text typed (row,
\* rows counted from 1)
IdleRows == [x_clicks |-> {}, toggle |-> None, edit |-> None]

\* the row the loop of side_panel leaves in remove_i: the last row whose
\* enabled X button was clicked
RemoveI(self, r) ==
    LET functions_len == Len(self.functions)
        clicked == {i \in 1..functions_len : i \in r.x_clicks /\ functions_len > 1}
    IN  IF clicked = {} THEN None
        ELSE Some(CHOOSE i \in clicked : \A j \in clicked : j <= i)

\* row i is the one typed into
Edited(r, i) == IsSome(r.edit) /\ Unwrap(r.edit)[1] = i

\* the function-list half of side_panel
side_panel_functions(self, r) ==
    LET rows == 1..Len(self.functions)
        functions ==
            [i \in rows |->
                [integral |-> (self.functions[i].integral
                                   # (r.toggle = Some(<<i, "integral">>))),
                 derivative |-> (self.functions[i].derivative
                                     # (r.toggle = Some(<<i, "derivative">>)))]]
        func_strs ==
            [i \in rows |-> IF Edited(r, i) THEN Unwrap(r.edit)[2] ELSE self.func_strs[i]]
        changed == [i \in rows |-> func_strs[i] # self.func_strs[i]]
        func_errors ==
            [i \in rows |->
                IF IsSome(TextError(func_strs[i])) /\ changed[i]
                THEN Some(<<i - 1, Unwrap(TextError(func_strs[i]))>>)
                ELSE self.func_errors[i]]
    IN  remove_function(
            [self EXCEPT !.functions = functions,
                         !.func_strs = func_strs,
                         !.func_errors = func_errors,
                         !.text_boxes_focused = \E i \in rows : Edited(r, i),
                         !.exists_error = \E i \in rows : IsSome(TextError(func_strs[i]))],
            RemoveI(self, r))

SidePanel(g) ==
    /\ surface = "app"
    /\ settings' = side_panel(settings, g)
    /\ pass' = Some(PassOf(settings, g))
    /\ app' = side_panel_functions(app, IdleRows)
    /\ UNCHANGED <<surface, engineVars, input, hint>>

\* the sliders and buttons of the settings left alone, the entry sum of the
\* combo box clicked
SettingsGesture(self, sum) ==
    [sum |-> sum, extrema |-> FALSE, roots |-> FALSE,
     min_x |-> self.integral_min_x, max_x |-> self.integral_max_x,
     num |-> self.integral_num]

\* what the user does in one frame: the H key, the Panel and Add Function
\* buttons of the top bar, the entry of the combo box, the rows; and the
\* width the plot is given
IdleFrame ==
    [key_h |-> FALSE, panel |-> FALSE, add |-> FALSE, sum |-> None,
     rows |-> IdleRows, width |-> 2]

\* one click or one text typed per frame; an Add Function and an X reported
\* in the same frame, and every X at once
Frames ==
    {IdleFrame,
     [IdleFrame EXCEPT !.key_h = TRUE],
     [IdleFrame EXCEPT !.panel = TRUE],
     [IdleFrame EXCEPT !.add = TRUE],
     [IdleFrame EXCEPT !.sum = Some("Right")],
     [IdleFrame EXCEPT !.add = TRUE, !.rows.x_clicks = {1}],
     [IdleFrame EXCEPT !.rows.x_clicks = 1..MaxFunctions]}
        \cup {[IdleFrame EXCEPT !.rows.x_clicks = {i}] : i \in 1..MaxFunctions}
        \cup {[IdleFrame EXCEPT !.rows.toggle = Some(<<i, k>>)] :
                  i \in 1..MaxFunctions, k \in {"integral", "derivative"}}
        \cup {[IdleFrame EXCEPT !.rows.edit = Some(<<i, t>>)] :
                  i \in 1..MaxFunctions, t \in Texts}

\* the top bar of MathApp::update: the H key, Panel and Add Function
top_bar(self, f) ==
    LET s1 == IF ~self.text_boxes_focused
              THEN [self EXCEPT !.side_panel_open = (self.side_panel_open # f.key_h)]
              ELSE self
        s2 == [s1 EXCEPT !.side_panel_open = (s1.side_panel_open # f.panel)]
    IN  IF f.add
        THEN [s2 EXCEPT !.functions = Append(s2.functions, DEFAULT_FUNCTION_ENTRY),
                        !.func_strs = Append(s2.func_strs, ""),
                        !.func_errors = Append(s2.func_errors, None)]
        ELSE s2

\* MathApp::update: the MathApp, its settings and the record of the pass of
\* side_panel after a frame in which the user did f
app_update(self, st, f) ==
    LET s1 == top_bar(self, f)
        g == SettingsGesture(st, f.sum)
        s2 == IF s1.side_panel_open
              THEN side_panel_functions(s1, f.rows)
              ELSE [s1 EXCEPT !.text_boxes_focused = FALSE]
        st2 == IF s1.side_panel_open THEN side_panel(st, g) ELSE st
    IN  [app |-> s2,
         settings |-> IF s2.exists_error THEN st2 ELSE [st2 EXCEPT !.plot_width = f.width],
         pass |-> IF s1.side_panel_open THEN Some(PassOf(st, g)) ELSE None]

AppUpdate(f) ==
    /\ surface = "app"
    /\ f.add => Len(app.functions) < MaxFunctions
    /\ \E r \in {app_update(app, settings, f)} :
           /\ app' = r.app
           /\ settings' = r.settings
           /\ pass' = r.pass
    /\ UNCHANGED <<surface, engineVars, input, hint>>

(***************************************************************************)
(* generate_hint (suggestions.rs)                                          *)
(* A string is the sequence of its characters.                             *)
(***************************************************************************)
\* HintEnum: data holds the one string of Single, the strings of Many
Single(str) == [kind |-> "Single", data |-> <<str>>]

Many(strs) == [kind |-> "Many", data |-> strs]

HintNone == [kind |-> "None", data |-> <<>>]

\* the strings of strs[1..n] one after the other
RECURSIVE Collect(_, _)
Collect(strs, n) == IF n = 0 THEN <<>> ELSE Collect(strs, n - 1) \o strs[n]

\* impl ToString for HintEnum
to_string(h) ==
    CASE h.kind = "Single" -> h.data[1]
      [] h.kind = "Many" -> Collect(h.data, Len(h.data))
      [] h.kind = "None" -> <<>>

COMPLETION_HASHMAP ==
    (<<"c", "o">> :> Many(<<<<"s", "(">>, <<"s", "h", "(">>>>))
    @@ (<<"c">> :> Many(<<<<"o", "s", "(">>, <<"o", "s", "h", "(">>, <<"e", "i", "l", "(">>, <<"b", "r", "t", "(">>>>))
    @@ (<<"f", "r", "a", "c">> :> Single(<<"t", "(">>))
    @@ (<<"f", "l">> :> Single(<<"o", "o", "r", "(">>))
    @@ (<<"s", "q">> :> Single(<<"r", "t", "(">>))
    @@ (<<"f", "r">> :> Single(<<"a", "c", "t", "(">>))
    @@ (<<"s", "i", "g">> :> Single(<<"n", "u", "m", "(">>))
    @@ (<<"a", "c">> :> Single(<<"o", "s", "(">>))
    @@ (<<"s", "i", "g", "n", "u", "m">> :> Single(<<"(">>))
    @@ (<<"l", "n">> :> Single(<<"(">>))
    @@ (<<"a", "c", "o">> :> Single(<<"s", "(">>))
    @@ (<<"f", "r", "a">> :> Single(<<"c", "t", "(">>))
    @@ (<<"r", "o", "u", "n", "d">> :> Single(<<"(">>))
    @@ (<<"t">> :> Many(<<<<"a", "n", "(">>, <<"a", "n", "h", "(">>, <<"r", "u", "n", "c", "(">>>>))
    @@ (<<"s">> :> Many(<<<<"i", "g", "n", "u", "m", "(">>, <<"i", "n", "(">>, <<"i", "n", "h", "(">>, <<"q", "r", "t", "(">>>>))
    @@ (<<"a", "c", "o", "s">> :> Single(<<"(">>))
    @@ (<<"e", "x", "p">> :> Single(<<"(">>))
    @@ (<<"t", "a", "n", "h">> :> Single(<<"(">>))
    @@ (<<"l", "o">> :> Many(<<<<"g", "2", "(">>, <<"g", "1", "0", "(">>>>))
    @@ (<<"l", "o", "g", "1", "0">> :> Single(<<"(">>))
    @@ (<<"f", "r", "a", "c", "t">> :> Single(<<"(">>))
    @@ (<<"t", "r", "u", "n">> :> Single(<<"c", "(">>))
    @@ (<<"l", "o", "g", "1">> :> Single(<<"0", "(">>))
    @@ (<<"a", "t">> :> Single(<<"a", "n", "(">>))
    @@ (<<"t", "r">> :> Single(<<"u", "n", "c", "(">>))
    @@ (<<"f", "l", "o", "o", "r">> :> Single(<<"(">>))
    @@ (<<"a", "b">> :> Single(<<"s", "(">>))
    @@ (<<"s", "i">> :> Many(<<<<"g", "n", "u", "m", "(">>, <<"n", "(">>, <<"n", "h", "(">>>>))
    @@ (<<"a", "s", "i">> :> Single(<<"n", "(">>))
    @@ (<<"s", "i", "n">> :> Many(<<<<"(">>, <<"h", "(">>>>))
    @@ (<<"e">> :> Single(<<"x", "p", "(">>))
    @@ (<<"f", "l", "o">> :> Single(<<"o", "r", "(">>))
    @@ (<<"e", "x">> :> Single(<<"p", "(">>))
    @@ (<<"s", "q", "r">> :> Single(<<"t", "(">>))
    @@ (<<"l", "o", "g", "2">> :> Single(<<"(">>))
    @@ (<<"a", "t", "a", "n">> :> Single(<<"(">>))
    @@ (<<"s", "i", "n", "h">> :> Single(<<"(">>))
    @@ (<<"t", "r", "u">> :> Single(<<"n", "c", "(">>))
    @@ (<<"c", "e", "i">> :> Single(<<"l", "(">>))
    @@ (<<"l">> :> Many(<<<<"n", "(">>, <<"o", "g", "2", "(">>, <<"o", "g", "1", "0", "(">>>>))
    @@ (<<"a", "s", "i", "n">> :> Single(<<"(">>))
    @@ (<<"t", "a", "n">> :> Many(<<<<"(">>, <<"h", "(">>>>))
    @@ (<<"c", "o", "s">> :> Many(<<<<"(">>, <<"h", "(">>>>))
    @@ (<<"r", "o", "u", "n">> :> Single(<<"d", "(">>))
    @@ (<<"a", "s">> :> Single(<<"i", "n", "(">>))
    @@ (<<"r">> :> Single(<<"o", "u", "n", "d", "(">>))
    @@ (<<"l", "o", "g">> :> Many(<<<<"2", "(">>, <<"1", "0", "(">>>>))
    @@ (<<"t", "a">> :> Many(<<<<"n", "(">>, <<"n", "h", "(">>>>))
    @@ (<<"f", "l", "o", "o">> :> Single(<<"r", "(">>))
    @@ (<<"c", "b", "r", "t">> :> Single(<<"(">>))
    @@ (<<"a", "t", "a">> :> Single(<<"n", "(">>))
    @@ (<<"c", "e">> :> Single(<<"i", "l", "(">>))
    @@ (<<"a", "b", "s">> :> Single(<<"(">>))
    @@ (<<"c", "o", "s", "h">> :> Single(<<"(">>))
    @@ (<<"c", "b", "r">> :> Single(<<"t", "(">>))
    @@ (<<"r", "o", "u">> :> Single(<<"n", "d", "(">>))
    @@ (<<"s", "i", "g", "n", "u">> :> Single(<<"m", "(">>))
    @@ (<<"a">> :> Many(<<<<"b", "s", "(">>, <<"s", "i", "n", "(">>, <<"c", "o", "s", "(">>, <<"t", "a", "n", "(">>>>))
    @@ (<<"s", "q", "r", "t">> :> Single(<<"(">>))
    @@ (<<"c", "e", "i", "l">> :> Single(<<"(">>))
    @@ (<<"r", "o">> :> Single(<<"u", "n", "d", "(">>))
    @@ (<<"f">> :> Many(<<<<"l", "o", "o", "r", "(">>, <<"r", "a", "c", "t", "(">>>>))
    @@ (<<"s", "i", "g", "n">> :> Single(<<"u", "m", "(">>))
    @@ (<<"t", "r", "u", "n", "c">> :> Single(<<"(">>))
    @@ (<<"c", "b">> :> Single(<<"r", "t", "(">>))

\* Gets completion from COMPLETION_HASHMAP
get_completion(key) ==
    IF key = <<>> THEN None
    ELSE IF key \in DOMAIN COMPLETION_HASHMAP THEN Some(COMPLETION_HASHMAP[key])
    ELSE None

\* misc::chars_take: the last take characters of chars
chars_take(chars, take) == SubSeq(chars, Len(chars) - take + 1, Len(chars))

\* the number of characters of chars equal to chr
CountChar(chars, chr) == Cardinality({k \in 1..Len(chars) : chars[k] = chr})

\* for i in (2..=5).rev().filter(|i| len >= *i), from i downwards
RECURSIVE HintFrom(_, _)
HintFrom(chars, i) ==
    IF i < 2 THEN HintNone
    ELSE IF Len(chars) >= i /\ IsSome(get_completion(chars_take(chars, i)))
    THEN Unwrap(get_completion(chars_take(chars, i)))
    ELSE HintFrom(chars, i - 1)

generate_hint(chars) ==
    IF chars = <<>> THEN Single(<<"x", "^", "2">>)
    ELSE IF CountChar(chars, "(") > CountChar(chars, ")") THEN Single(<<")">>)
    ELSE HintFrom(chars, 5)

\* the names of the supported functions
SupportedNames ==
    {<<"a", "b", "s">>,
     <<"s", "i", "g", "n", "u", "m">>,
     <<"s", "i", "n">>,
     <<"c", "o", "s">>,
     <<"t", "a", "n">>,
     <<"a", "s", "i", "n">>,
     <<"a", "c", "o", "s">>,
     <<"a", "t", "a", "n">>,
     <<"s", "i", "n", "h">>,
     <<"c", "o", "s", "h">>,
     <<"t", "a", "n", "h">>,
     <<"f", "l", "o", "o", "r">>,
     <<"r", "o", "u", "n", "d">>,
     <<"c", "e", "i", "l">>,
     <<"t", "r", "u", "n", "c">>,
     <<"f", "r", "a", "c", "t">>,
     <<"e", "x", "p">>,
     <<"s", "q", "r", "t">>,
     <<"c", "b", "r", "t">>,
     <<"l", "n">>,
     <<"l", "o", "g", "2">>,
     <<"l", "o", "g", "1", "0">>}

\* the texts handed to generate_hint: a function name, whole or typed in
\* part, or nothing, after at most MaxLead other characters
NamePrefixes == UNION {{SubSeq(n, 1, k) : k \in 0..Len(n)} : n \in SupportedNames}

LeadChars == {"x", "(", ")", "a"}

Leads == UNION {[1..k -> LeadChars] : k \in 0..MaxLead}

HintInputs == {l \o t : l \in Leads, t \in NamePrefixes}

GenerateHint ==
    /\ surface = "hint"
    /\ hint' = Some(generate_hint(input))
    /\ UNCHANGED <<surface, engineVars, settings, pass, input, app>>

(***************************************************************************)
(* Specifications                                                          *)
(***************************************************************************)
\* no user interface: the engine alone is driven
NoApp == settings = None /\ pass = None /\ input = None /\ hint = None /\ app = None

\* no engine: the user interface alone is driven
NoEngine == fun = None /\ cm = None /\ panic = "" /\ last = NoCall /\ ret = None

InitNative(funcStrs, views, integralArgs) ==
    /\ surface = "native"
    /\ NoApp
    /\ \E func_str \in funcStrs, v \in views, integral \in BOOLEAN, args \in integralArgs :
            /\ NewPanic(func_str, integral, args[1], args[2], args[3], args[4]) = ""
            /\ fun = New(func_str, v[1], v[2], v[3], integral,
                         args[1], args[2], args[3], args[4])
    /\ cm = None
    /\ panic = ""
    /\ last = NoCall
    /\ ret = None

InitWeb(chartArgs) ==
    /\ surface = "web"
    /\ NoApp
    /\ fun = None
    /\ \E a \in chartArgs : cm = ChartNew(a[1], a[2], a[3], a[4], a[5], a[6], a[7])
    /\ panic = ""
    /\ last = NoCall
    /\ ret = None

\* every operation, with few viewports and few integration settings
Init == InitNative(FuncStrs, FewViews, FewIntegralArgs) \/ InitWeb(FewChartArgs)

Next ==
    \/ \E func_str \in FuncStrs \cup {"", BadFuncStr}, integral \in BOOLEAN,
          args \in FewIntegralArgs : Update(func_str, integral, args)
    \/ \E v \in FewViews : UpdateBounds(v[1], v[2], v[3])
    \/ Run
    \/ EmptyFuncStr
    \/ \E a \in FewChartArgs \cup {BadChartArgs}, fail \in DrawFailures : ChartUpdate(a, fail)

Spec == Init /\ [][Next]_vars

\* the sampler is the subject: every viewport, integration off
InitSampler == InitNative(FuncStrs, Views, {AllNoneArgs}) /\ ~fun.integral

NextSampler ==
    \/ \E func_str \in FuncStrs : Update(func_str, FALSE, AllNoneArgs)
    \/ \E v \in Views : UpdateBounds(v[1], v[2], v[3])
    \/ Run
    \/ EmptyFuncStr

SpecSampler == InitSampler /\ [][NextSampler]_vars

\* the integrator is the subject: one viewport, every integration setting
InitIntegrator == InitNative(FuncStrs, OneView, IntegralArgs) \/ InitWeb(FewChartArgs)

NextIntegrator ==
    \/ \E func_str \in FuncStrs \cup {""}, integral \in BOOLEAN, args \in IntegralArgs :
          Update(func_str, integral, args)
    \/ \E v \in OneView : UpdateBounds(v[1], v[2], v[3])
    \/ Run
    \/ EmptyFuncStr
    \/ \E a \in FewChartArgs, fail \in DrawFailures : ChartUpdate(a, fail)

SpecIntegrator == InitIntegrator /\ [][NextIntegrator]_vars

\* the bounds are the subject: every viewport and every chart setting a
\* caller may hand over, integration off
InitBounds ==
    \/ InitNative(BoundsFuncStrs, AnyViews, {AllNoneArgs}) /\ ~fun.integral
    \/ InitWeb(AnyChartArgs)

NextBounds ==
    \/ \E v \in AnyViews : UpdateBounds(v[1], v[2], v[3])
    \/ Run
    \/ \E a \in AnyChartArgs, fail \in DrawFailures : ChartUpdate(a, fail)

SpecBounds == InitBounds /\ [][NextBounds]_vars

\* the quadrature is the subject: a Function built with integration enabled
\* over every range, count and rule, and run
InitQuadrature == InitNative(QuadFuncStrs, OneView, QuadArgs) /\ fun.integral

NextQuadrature == Run

SpecQuadrature == InitQuadrature /\ [][NextQuadrature]_vars

\* the side panel is the subject: the application as it starts up, and every
\* pass of side_panel
InitPanel ==
    /\ surface = "app"
    /\ NoEngine
    /\ settings = AppSettingsDefault
    /\ pass = None
    /\ input = None
    /\ hint = None
    /\ app = MathAppDefault

NextPanel == \E g \in Gestures : SidePanel(g)

SpecPanel == InitPanel /\ [][NextPanel]_vars

\* the list of functions is the subject: the application as it starts up,
\* and every frame
InitApp == InitPanel

NextApp == \E f \in Frames : AppUpdate(f)

SpecApp == InitApp /\ [][NextApp]_vars

\* generate_hint is the subject: every text, and the hint generated for it
InitHint ==
    /\ surface = "hint"
    /\ NoEngine
    /\ settings = None
    /\ pass = None
    /\ input \in HintInputs
    /\ hint = None
    /\ app = None

NextHint == GenerateHint

SpecHint == InitHint /\ [][NextHint]_vars

(***************************************************************************)
(* Properties                                                              *)
(***************************************************************************)
Native == surface = "native"

Web == surface = "web"

\* the x values of a series
SeriesXs(series) == [k \in 1..Len(series) |-> series[k][1]]

\* every point of the series carries the value of expression e at its x
ComputedFrom(series, e) == \A k \in 1..Len(series) : series[k][2] = Eval(e, series[k][1])

EvenXs(min_x, max_x, pixel_width) ==
    [k \in 1..(pixel_width + 1) |->
        FAdd(min_x, FDiv(FMul(Int2F(k - 1), FSub(max_x, min_x)), Int2F(pixel_width)))]

\* C2: a run that follows update_bounds(min_x, max_x, pixel_width) returns
\* pixel_width + 1 points, evenly spaced from the requested min_x to the
\* requested max_x.
C2_RunSeriesSpansRequestedBounds ==
    [][(last.op = "update_bounds" /\ last'.op = "run")
        => SeriesXs(Unwrap(ret').line) = EvenXs(last.min_x, last.max_x, last.pixel_width)]_vars

\* the x values of the previous series
PrevXs(self) == {Unwrap(self.back_cache)[k][1] : k \in 1..Len(Unwrap(self.back_cache))}

\* C3: on the pan/zoom path the compiled function is called exactly once for
\* every new x position that is absent from the previous series, and the
\* positions present in it keep their point.
C3_PanEvaluatesOnlyNewPositions ==
    [][(last'.op = "update_bounds"
            /\ PanBranch(fun, last'.min_x, last'.max_x, last'.pixel_width))
        => LET new == Unwrap(fun'.back_cache)
           IN  last'.sample_evals =
                   Cardinality({k \in 1..Len(new) : new[k][1] \notin PrevXs(fun)})]_vars

\* C4: update_bounds with the stored min_x, max_x and pixel_width and a
\* populated back_cache keeps the cached series.
C4_SameBoundsKeepCache ==
    [][(last'.op = "update_bounds" /\ IsSome(fun.back_cache)
            /\ last'.min_x = fun.min_x /\ last'.max_x = fun.max_x
            /\ last'.pixel_width = fun.pixel_width)
        => fun'.back_cache = fun.back_cache]_vars

\* C5: after update_bounds returns, the stored min_x, max_x and pixel_width
\* are the arguments of the call.
C5_BoundsStoredOnEveryBranch ==
    last.op = "update_bounds"
        => /\ fun.min_x = last.min_x
           /\ fun.max_x = last.max_x
           /\ fun.pixel_width = last.pixel_width

\* the last call was an update of the Function that returned
UpdateReturned == Native /\ last.op = "update" /\ panic = ""

\* the draw of the last ChartManager::update changed nothing but num_interval
OnlyNumIntervalChanged ==
    /\ Web
    /\ last'.op = "chart_update"
    /\ panic' = ""
    /\ ~underlying_update(cm, cm'.func_str, cm'.min_x, cm'.max_x, cm'.min_y, cm'.max_y)
    /\ cm'.num_interval # cm.num_interval

\* what ChartManager::update does for the caches when only num_interval
\* changed: the rectangles are recomputed with the new count, the series is
\* reused when it is there and the resolution is the same
ChartRecomputesRectanglesOnly ==
    /\ ~cm'.use_front_cache
    /\ cm'.use_back_cache <=> (cm'.resolution = cm.resolution /\ IsSome(cm.back_cache))
    /\ cm'.use_back_cache => cm'.back_cache = cm.back_cache
    /\ IsSome(Unwrap(ret').bars)
        => Unwrap(ret').bars = Some(chart_integral_rectangles(cm',
               FDiv(FAbs(FSub(cm'.max_x, cm'.min_x)), Int2F(cm'.num_interval))))

SwitchedOn ==
    /\ UpdateReturned'
    /\ last'.func_str = fun.func_str
    /\ last'.func_str # ""
    /\ ~fun.integral
    /\ last'.integral
    /\ last'.args = "same"
    /\ last'.front_was

C8_AsStated ==
    [][(UpdateReturned' /\ last'.func_str = fun.function /\ last'.integral
            /\ last'.args = "same" /\ last'.front_was)
        => fun'.front_cache = fun.front_cache]_vars

\* C8 amended: an update with integration enabled, an expression string that
\* is not empty and equals the stored func_str, and the stored parameters
\* leaves front_cache untouched; the next run returns the cached rectangles
\* and area without calling the compiled function for them.
C8_SameParamsKeepFront ==
    [][/\ (UpdateReturned' /\ last'.func_str = fun.func_str /\ last'.func_str # ""
              /\ last'.integral /\ last'.args = "same" /\ last'.front_was)
            => (fun'.front_cache = fun.front_cache /\ fun'.integral)
       /\ (Native /\ last.op = "update" /\ last.front_was /\ fun.integral
              /\ IsSome(fun.front_cache) /\ last'.op = "run")
            => /\ panic' = ""
               /\ last'.integral_evals = 0
               /\ Unwrap(ret').bars = fun.front_cache
               /\ fun'.front_cache = fun.front_cache]_vars

\* an update with integration on before and after and the stored parameters
\* left the rectangles in front_cache
C8_Witness ==
    /\ UpdateReturned
    /\ last.func_str = fun.func_str
    /\ last.func_str # ""
    /\ last.integral_was
    /\ last.integral
    /\ last.args = "same"
    /\ last.front_was
    /\ fun.integral
    /\ IsSome(fun.front_cache)
    /\ Unwrap(fun.front_cache)[1] # <<>>

\* C9: run returns an integration result exactly when the integral flag is
\* set; when it is not set, run calls the compiled function for no rectangle
\* and leaves front_cache as it is.
C9_BarsIffIntegral ==
    [][(Native /\ last'.op = "run")
        => /\ panic' = ""
           /\ IsSome(Unwrap(ret').bars) <=> fun.integral
           /\ ~fun.integral
                => (last'.integral_evals = 0 /\ fun'.front_cache = fun.front_cache)]_vars

\* a run with integration off returned no rectangles although some are cached
C9_Witness ==
    /\ Native
    /\ last.op = "run"
    /\ ~fun.integral
    /\ IsSome(fun.front_cache)
    /\ IsSome(ret)
    /\ IsNone(Unwrap(ret).bars)

\* the rectangles [left_x, right_x] follow each other from integral_min_x to
\* integral_max_x
Tiles(self) ==
    /\ RectLeftX(self, 0) = self.integral_min_x
    /\ RectRightX(self, self.integral_num - 1) = self.integral_max_x
    /\ \A e \in 0..(self.integral_num - 2) : RectRightX(self, e) = RectLeftX(self, e + 1)

\* C10: over a range with integral_min_x < 0 < integral_max_x and at least
\* one rectangle, the rectangles of integral_rectangles tile the range.
C10_RectanglesTileRange ==
    (/\ Native
     /\ last.op = "run"
     /\ panic = ""
     /\ fun.integral
     /\ FLt(fun.integral_min_x, Zero)
     /\ FLt(Zero, fun.integral_max_x)
     /\ fun.integral_num >= 1)
        => Tiles(fun)

\* the last call was a run that returned an integration result
RunIntegrated == Native /\ last.op = "run" /\ panic = "" /\ fun.integral

\* C11: for f(x) = x integrated over [-1, 1] with at least 2 rectangles, the
\* area returned by integral_rectangles is 0 under every rule.
C11_SymmetricAreaCancels ==
    (/\ RunIntegrated
     /\ fun.function = "x"
     /\ fun.integral_min_x = Int2F(-1)
     /\ fun.integral_max_x = One
     /\ fun.integral_num >= 2)
        => Unwrap(fun.front_cache)[2] = Zero

\* C12: for f(x) = 1 integrated over [0, 5] with at least 1 rectangle, the
\* area returned by integral_rectangles is 5 under every rule.
C12_ConstantAreaIsRangeWidth ==
    (/\ RunIntegrated
     /\ fun.function = "1"
     /\ fun.integral_min_x = Zero
     /\ fun.integral_max_x = Int2F(5)
     /\ fun.integral_num >= 1)
        => Unwrap(fun.front_cache)[2] = Int2F(5)

\* 3 rectangles of width 5/3 under the Middle rule gave the area 5
C12_Witness ==
    /\ RunIntegrated
    /\ fun.function = "1"
    /\ fun.integral_min_x = Zero
    /\ fun.integral_max_x = Int2F(5)
    /\ fun.integral_num = 3
    /\ fun.sum = "Middle"
    /\ Len(Unwrap(fun.front_cache)[1]) = 3
    /\ Unwrap(fun.front_cache)[2] = Int2F(5)

\* the heights of a rectangle list
Heights(data2) == [k \in 1..Len(data2) |-> data2[k][2]]

\* C13: the rectangle list returned by integral_rectangles holds exactly the
\* rectangles whose height is not NaN, and the area is the sum of
\* height * step over the rectangles of the list; the area is NaN only when
\* a rectangle of the list has an infinite height.
C13_NaNHeightsDropped ==
    RunIntegrated
        => LET data2 == Unwrap(fun.front_cache)[1]
               area == Unwrap(fun.front_cache)[2]
           IN  /\ \A k \in 1..Len(data2) : ~IsNaN(data2[k][2])
               /\ Len(data2) = Cardinality({e \in 0..(fun.integral_num - 1) :
                                               ~IsNaN(RectHeight(fun, e))})
               /\ area = FSum([k \in 1..Len(data2) |->
                                  FMul(data2[k][2], IntegralStep(fun))])
               /\ IsNaN(area) => \E k \in 1..Len(data2) : ~IsFinite(data2[k][2])

\* a rectangle with a NaN height was dropped, another was kept, and the area
\* is a number
C13_Witness ==
    /\ RunIntegrated
    /\ \E e \in 0..(fun.integral_num - 1) : IsNaN(RectHeight(fun, e))
    /\ Len(Unwrap(fun.front_cache)[1]) >= 1
    /\ Len(Unwrap(fun.front_cache)[1]) < fun.integral_num
    /\ IsFinite(Unwrap(fun.front_cache)[2])

FMin(a, b) == IF FLt(b, a) THEN b ELSE a

FMax(a, b) == IF FLt(a, b) THEN b ELSE a

\* the height the rule asks for rectangle e: f at the smaller bound (Left),
\* f at the larger bound (Right), or the mean of the two (Middle)
RuleHeight(self, e) ==
    LET left_x == FMin(RectX(self, e), RectX2(self, e))
        right_x == FMax(RectX(self, e), RectX2(self, e))
    IN  CASE self.sum = "Left" -> Eval(self.function, left_x)
          [] self.sum = "Right" -> Eval(self.function, right_x)
          [] self.sum = "Middle" ->
                FDiv(FAdd(Eval(self.function, left_x), Eval(self.function, right_x)), Two)

\* C14: the height of every rectangle of integral_rectangles is f(left_x)
\* under Left, f(right_x) under Right and (f(left_x) + f(right_x)) / 2 under
\* Middle, left_x and right_x being the smaller and the larger bound of the
\* rectangle.
C14_HeightFollowsRule ==
    RunIntegrated
        => Heights(Unwrap(fun.front_cache)[1])
               = SelectSeq([k \in 1..fun.integral_num |-> RuleHeight(fun, k - 1)],
                           LAMBDA h : ~IsNaN(h))

\* a rectangle on the negative side and one on the positive side, with
\* different heights at their two bounds
C14_Witness ==
    /\ RunIntegrated
    /\ fun.function = "x"
    /\ fun.sum = "Left"
    /\ fun.integral_num >= 2
    /\ FLt(RectX(fun, 0), Zero)
    /\ FLt(Zero, RectX(fun, fun.integral_num - 1))
    /\ Len(Unwrap(fun.front_cache)[1]) = fun.integral_num

\* C15: an update whose viewport bounds have min_x >= max_x is rejected:
\* update_bounds stores and computes nothing, ChartManager::update fails and
\* stores and computes nothing, also when the bounds are the stored ones.
C15_InvalidBoundsRejected ==
    [][/\ (Native /\ last'.op = "update_bounds" /\ FGe(last'.min_x, last'.max_x))
            => fun' = fun
       /\ (Web /\ last'.op = "chart_update" /\ FGe(last'.min_x, last'.max_x))
            => (panic' # "" /\ cm' = cm)]_vars

\* the caches, the integral flag and the stored integration parameters
IntegrationState(self) ==
    <<self.back_cache, self.front_cache, self.integral, self.integral_min_x,
      self.integral_max_x, self.integral_num, self.sum>>

\* C16: an update with integration enabled and one of integral_min_x,
\* integral_max_x, integral_num, sum absent fails, and leaves the caches, the
\* integral flag and the stored integration parameters as they were.
C16_AbsentArgsFailCleanly ==
    [][(Native /\ last'.op = "update" /\ last'.integral /\ last'.args = "absent")
        => (panic' # "" /\ IntegrationState(fun') = IntegrationState(fun))]_vars

\* the panics ChartManager::update rejects its arguments with
ChartRejections ==
    {"min_x is greater than (or equal to) than max_x!",
     "min_y is greater than (or equal to) than max_y!",
     "resolution cannot be less than 0"}

\* C17: when ChartManager::update rejects a call, no field of the
\* ChartManager has been written.
C17_RejectionWritesNothing ==
    [][(Web /\ last'.op = "chart_update" /\ panic' \in ChartRejections) => cm' = cm]_vars

\* an update with min_x >= max_x was rejected while both caches were
\* populated, and the stored min_x is not the rejected one
C17_Witness ==
    /\ Web
    /\ last.op = "chart_update"
    /\ panic = "min_x is greater than (or equal to) than max_x!"
    /\ last.back_was
    /\ last.front_was
    /\ IsSome(cm.back_cache)
    /\ IsSome(cm.front_cache)
    /\ cm.min_x # last.min_x

\* C18: an update with an expression string that does not parse returns to
\* its caller (no panic) and leaves the cached samples and rectangles in
\* place.
C18_ParseErrorIsRecoverable ==
    [][/\ (Native /\ last'.op = "update"
              /\ last'.func_str # "" /\ ~ParseOk(last'.func_str))
            => /\ panic' = ""
               /\ fun'.back_cache = fun.back_cache
               /\ fun'.front_cache = fun.front_cache
       /\ (Web /\ last'.op = "chart_update" /\ ~ParseOk(last'.func_str))
            => /\ panic' = ""
               /\ cm'.back_cache = cm.back_cache
               /\ cm'.front_cache = cm.front_cache]_vars

\* C19: an integration request with no rectangle is rejected: run with
\* integration enabled and integral_num = 0, and ChartManager::update with
\* num_interval = 0, return no integration result.
C19_ZeroRectanglesRejected ==
    [][/\ (Native /\ last'.op = "run" /\ fun.integral /\ fun.integral_num = 0)
            => (panic' # "" \/ IsNone(Unwrap(ret').bars))
       /\ (Web /\ last'.op = "chart_update" /\ cm'.num_interval = 0)
            => (panic' # "" \/ IsNone(Unwrap(ret').bars))]_vars

\* the draw of the last ChartManager::update computed the sample series
ChartSampled ==
    /\ Web
    /\ last'.op = "chart_update"
    /\ panic' = ""
    /\ last'.fail # "early"
    /\ ~cm'.use_back_cache

\* C20 as stated: the sampler keeps every point, so the series of
\* Function::run has pixel_width + 1 points and the series ChartManager::draw
\* builds has resolution points, whatever the values of the function.
C20_AsStated ==
    [][/\ (Native /\ last'.op = "run" /\ panic' = "")
            => Len(Unwrap(ret').line) = fun'.pixel_width + 1
       /\ ChartSampled => Len(Unwrap(cm'.back_cache)) = cm'.resolution]_vars

\* C20 amended: Function::run keeps every point, NaN and infinite y
\* included: its series has pixel_width + 1 points (x, f(x)).
\* ChartManager::draw keeps exactly the points with min_y <= y <= max_y, in
\* order.
C20_RunKeepsUndefinedValues ==
    [][/\ (Native /\ last'.op = "run" /\ panic' = "")
            => /\ Len(Unwrap(ret').line) = fun'.pixel_width + 1
               /\ ComputedFrom(Unwrap(ret').line, fun'.function)
       /\ ChartSampled
            => Unwrap(cm'.back_cache)
                   = SelectSeq([k \in 1..cm'.resolution |-> ChartSample(cm', k)],
                               LAMBDA p : FLe(cm'.min_y, p[2]) /\ FLe(p[2], cm'.max_y))]_vars

\* a run returned a series of pixel_width + 1 points, one of them with a NaN y
C20_Witness ==
    /\ Native
    /\ last.op = "run"
    /\ panic = ""
    /\ Len(Unwrap(ret).line) = fun.pixel_width + 1
    /\ \E k \in 1..Len(Unwrap(ret).line) : IsNaN(Unwrap(ret).line[k][2])

\* the draw of the last ChartManager::update reused the sample series
ChartReusedSeries ==
    /\ Web
    /\ last'.op = "chart_update"
    /\ panic' = ""
    /\ last'.fail # "early"
    /\ cm'.use_back_cache

\* C21: a change of the sample resolution forces a full recompute of the
\* series: update_bounds with another pixel_width leaves no series behind, the
\* run that finds none evaluates the function at each of the pixel_width + 1
\* positions, and a series ChartManager::draw reuses was sampled at the stored
\* resolution.
C21_ResolutionChangeRecomputes ==
    [][/\ (Native /\ last'.op = "update_bounds" /\ last'.pixel_width # fun.pixel_width)
            => IsNone(fun'.back_cache)
       /\ (Native /\ last'.op = "run" /\ IsNone(fun.back_cache))
            => /\ last'.sample_evals = fun'.pixel_width + 1
               /\ fun'.back_cache = Some(RunSamples(fun'))
       /\ ChartReusedSeries => last'.back_from[6] = cm'.resolution]_vars
\* C22: integration is never invoked with unset bounds: whenever the calls
\* made so far returned and integral is set, the stored integral_min_x and
\* integral_max_x are not NaN, and no call ends in the NaN panics of
\* integral_rectangles.
C22_IntegrationHasBounds ==
    Native =>
        /\ (panic = "" /\ fun.integral)
                => ~IsNaN(fun.integral_min_x) /\ ~IsNaN(fun.integral_max_x)
        /\ panic \notin {"integral_min_x is NaN", "integral_max_x is NaN"}

\* an update that handed over bounds other than the stored ones switched
\* integration on and returned
C22_Witness ==
    /\ Native
    /\ panic = ""
    /\ last.op = "update"
    /\ ~last.integral_was
    /\ last.args = "changed"
    /\ fun.integral
    /\ fun.func_str = last.func_str
\* C23: an invalid cache is never read: whenever use_back_cache or
\* use_front_cache is set the cache it stands for is Some, and no update ends
\* in the panics of get_back_cache and get_front_cache, draws that return an
\* error part-way included.
C23_InvalidCacheNeverRead ==
    Web =>
        /\ cm.use_back_cache => IsSome(cm.back_cache)
        /\ cm.use_front_cache => IsSome(cm.front_cache)
        /\ panic \notin {"use_back_cache is true, but back_cache is None!",
                          "use_front_cache is true, but front_cache is None!"}

\* a draw that took both cache branches and drew what the caches hold
C23_Witness ==
    /\ Web
    /\ panic = ""
    /\ last.op = "chart_update"
    /\ last.fail = "none"
    /\ cm.use_back_cache
    /\ cm.use_front_cache
    /\ Unwrap(ret).line = cm.back_cache
    /\ Unwrap(ret).bars = cm.front_cache
\* the draw of the last ChartManager::update reused the rectangles
ChartReusedRectangles ==
    /\ Web
    /\ last'.op = "chart_update"
    /\ panic' = ""
    /\ last'.fail \notin {"early", "mid"}
    /\ cm'.use_front_cache

\* C26: a cache ChartManager::draw reuses was computed from the stored
\* parameters: the series from func_str, min_x, max_x, min_y, max_y and
\* resolution, the rectangles from func_str, min_x, max_x and num_interval,
\* also after draws that returned an error between the store and the refresh.
C26_ReusedCacheIsCurrent ==
    [][/\ ChartReusedSeries => last'.back_from = BackFrom(cm')
       /\ ChartReusedRectangles => last'.front_from = FrontFrom(cm')]_vars
\* a pass of side_panel has been made
PanelPassed == surface = "app" /\ IsSome(pass)

\* C24: at the end of a pass of side_panel integral_changed is true exactly
\* when one of the four integral settings changed in the pass: the min-x
\* slider, the max-x slider, the rectangle-count slider or the selected sum.
C24_IntegralChangedIffSettingChanged ==
    PanelPassed =>
        (settings.integral_changed <=>
            \/ Unwrap(pass).min_x_changed
            \/ Unwrap(pass).max_x_changed
            \/ Unwrap(pass).integral_num_changed
            \/ Unwrap(pass).sum_changed)
\* C30: when integral_min_x < integral_max_x holds before a pass of
\* side_panel it holds after the pass, whichever of the two bound sliders
\* changed in it.
C30_FixUpRestoresOrder ==
    (PanelPassed /\ Unwrap(pass).ordered_before)
        => FLt(settings.integral_min_x, settings.integral_max_x)
\* the continuations of the text t: what is left of each supported function
\* name that starts with t, followed by "("
Continuations(t) ==
    {SubSeq(n, Len(t) + 1, Len(n)) \o <<"(">> :
        n \in {m \in SupportedNames : Len(m) >= Len(t) /\ SubSeq(m, 1, Len(t)) = t}}

\* the longest text every member of the set strs starts with
CommonStart(strs) ==
    LET str == CHOOSE x \in strs : TRUE
        ks == {k \in 0..Len(str) :
                  \A y \in strs : Len(y) >= k /\ SubSeq(y, 1, k) = SubSeq(str, 1, k)}
    IN  SubSeq(str, 1, CHOOSE k \in ks : \A j \in ks : j <= k)

\* the lengths of trailing text that some supported function name continues
Completable(chars) ==
    {i \in 2..5 : Len(chars) >= i /\ Continuations(chars_take(chars, i)) # {}}

\* the longest trailing text of 5 down to 2 characters that some name continues
Trailing(chars) ==
    chars_take(chars, CHOOSE i \in Completable(chars) : \A j \in Completable(chars) : j <= i)

\* C25: for a text whose parentheses are balanced and whose trailing
\* characters (5 down to 2, longest first) start a supported function name,
\* the hint is the rest of the name and "(" when one name continues them, and
\* the longest common start of the continuations when several names do.
C25_HintCompletesFunctionName ==
    (/\ surface = "hint"
     /\ IsSome(hint)
     /\ input # <<>>
     /\ CountChar(input, "(") <= CountChar(input, ")")
     /\ Completable(input) # {})
        => to_string(Unwrap(hint)) = CommonStart(Continuations(Trailing(input)))
\* C27: whenever front_cache of a Function is Some it holds the rectangles
\* and the area integral_rectangles returns for the stored function,
\* integral_min_x, integral_max_x, integral_num and sum, whatever update,
\* update_bounds and run calls were made.
C27_FrontCacheIsCurrent ==
    (Native /\ IsSome(fun.front_cache))
        => fun.front_cache = Some(integral_rectangles(fun))

\* an update with integral = false that carried other parameters than the
\* stored ones left the rectangles in place
C27_Witness ==
    /\ Native
    /\ panic = ""
    /\ last.op = "update"
    /\ ~last.integral
    /\ last.args = "changed"
    /\ last.front_was
    /\ IsSome(fun.front_cache)
\* C28: every rectangle integral_rectangles produces has left_x <= right_x
\* and right_x - left_x = step = |min_x - max_x| / rectangle_count, and its
\* displayed center is the midpoint of [left_x, right_x].
C28_RectangleShape ==
    RunIntegrated =>
        /\ \A e \in 0..(fun.integral_num - 1) :
              /\ FLe(RectLeftX(fun, e), RectRightX(fun, e))
              /\ FEq(FSub(RectRightX(fun, e), RectLeftX(fun, e)),
                     FDiv(FAbs(FSub(fun.integral_min_x, fun.integral_max_x)),
                          Int2F(fun.integral_num)))
              /\ FEq(RectCenter(fun, e),
                     FDiv(FAdd(RectLeftX(fun, e), RectRightX(fun, e)), Two))
        /\ \A k \in 1..Len(Unwrap(ret).bars[1][1]) :
              Unwrap(ret).bars[1][1][k][1]
                  = FDiv(FAdd(RectLeftX(fun, SurvivingRects(fun)[k]),
                              RectRightX(fun, SurvivingRects(fun)[k])), Two)

\* a run drew a rectangle that starts left of the origin and one that starts
\* at or right of it
C28_Witness ==
    /\ RunIntegrated
    /\ \E j, k \in 1..Len(Unwrap(ret).bars[1][1]) :
          /\ ~IsSignPositive(RectX(fun, SurvivingRects(fun)[j]))
          /\ IsSignPositive(RectX(fun, SurvivingRects(fun)[k]))
\* C29: the two caches are decided independently: update with the stored,
\* non-empty expression leaves back_cache, min_x, max_x and pixel_width as
\* they are, and update_bounds leaves front_cache, integral, the stored
\* integration parameters, func_str and the compiled function as they are.
C29_CachesDecidedIndependently ==
    [][/\ (Native /\ last'.op = "update" /\ last'.func_str # ""
              /\ last'.func_str = fun.func_str)
            => /\ fun'.back_cache = fun.back_cache
               /\ fun'.min_x = fun.min_x
               /\ fun'.max_x = fun.max_x
               /\ fun'.pixel_width = fun.pixel_width
       /\ (Native /\ last'.op = "update_bounds")
            => /\ fun'.front_cache = fun.front_cache
               /\ fun'.integral = fun.integral
               /\ fun'.integral_min_x = fun.integral_min_x
               /\ fun'.integral_max_x = fun.integral_max_x
               /\ fun'.integral_num = fun.integral_num
               /\ fun'.sum = fun.sum
               /\ fun'.func_str = fun.func_str
               /\ fun'.function = fun.function]_vars

\* an update_bounds dropped the series of a Function and left its
\* rectangles in place
C29_Witness ==
    /\ Native
    /\ last.op = "update_bounds"
    /\ last.back_was
    /\ IsNone(fun.back_cache)
    /\ last.front_was
    /\ IsSome(fun.front_cache)
\* C31: Function::run is idempotent: a run that directly follows a run
\* returns the same series and the same rectangles and area, leaves the
\* Function as it is and makes no call of the compiled function.
C31_RunIsIdempotent ==
    [][(Native /\ last.op = "run" /\ panic = "" /\ last'.op = "run" /\ panic' = "")
            => /\ ret' = ret
               /\ fun' = fun
               /\ last'.sample_evals = 0
               /\ last'.integral_evals = 0]_vars

\* a run of an integrating Function found both caches populated and
\* returned the series and the rectangles without an evaluation
C31_Witness ==
    /\ Native
    /\ panic = ""
    /\ last.op = "run"
    /\ fun.integral
    /\ last.back_was
    /\ last.front_was
    /\ last.sample_evals = 0
    /\ last.integral_evals = 0
    /\ Unwrap(ret).line = Unwrap(fun.back_cache)
    /\ Unwrap(ret).bars = fun.front_cache
\* C32: functions, func_strs and func_errors of the MathApp have the same
\* length, and that length is at least 1, after any sequence of Add Function
\* and Delete Function clicks.
C32_FunctionVectorsAligned ==
    surface = "app" =>
        /\ Len(app.functions) >= 1
        /\ Len(app.func_strs) = Len(app.functions)
        /\ Len(app.func_errors) = Len(app.functions)

\* one function is left after a Delete Function click: its row holds an
\* error that was recorded while it was the second row
C32_Witness ==
    /\ surface = "app"
    /\ Len(app.functions) = 1
    /\ app.func_errors[1] = Some(<<1, "parse error">>)
====
